---- MODULE Spec2Model ----
(***************************************************************************)
(* Model of app_gastos.py: a Streamlit expense tracker over one SQLite     *)
(* table.  The state is the SQLite file (schema, rows, AUTOINCREMENT       *)
(* counter), the st.cache_data entry of cargar_datos, the DataFrame the    *)
(* latest script run obtained, and the calls that run made.  One action    *)
(* is one run of the script: init_db(), cargar_datos(), and the handler of *)
(* the button that triggered the run.                                      *)
(*                                                                         *)
(* Text is a sequence of tokens; the token " " is whitespace, any other    *)
(* token stands for a word.  Amounts are exact rationals <<num, den>> in   *)
(* lowest terms with den > 0 (the rounding of Python floats is not         *)
(* modelled).  Dates are records [y, m, d]; the fecha column holds the     *)
(* ten characters strftime('%Y-%m-%d') produces.                           *)
(***************************************************************************)
EXTENDS Integers, Sequences, FiniteSets

VARIABLES
    columnas,         \* columns of table gastos; {} while the table does not exist
    gastos,           \* rows of table gastos
    sqlite_sequence,  \* largest rowid AUTOINCREMENT has assigned
    cache,            \* st.cache_data entry of cargar_datos: <<>> or <<DataFrame>>
    llamadas,         \* calls of the latest script run, in order
    estado,           \* "idle": page rendered; "rerun": st.rerun() pending;
                      \* "crashed": the run ended in an uncaught exception
    form,             \* widget values of a submission (conversion check)
    conv              \* valid_input and monto_final_usd computed for form

vars == <<columnas, gastos, sqlite_sequence, cache, llamadas, estado, form, conv>>

\* Largest id the model lets the store assign.
MaxId == 2

\* ------------------------------------------------------------------ text

\* str.lstrip / str.rstrip / str.strip on token sequences.
RECURSIVE lstrip(_)
lstrip(s) == IF s = <<>> THEN s
             ELSE IF Head(s) = " " THEN lstrip(Tail(s)) ELSE s

RECURSIVE rstrip(_)
rstrip(s) == IF s = <<>> THEN s
             ELSE IF s[Len(s)] = " " THEN rstrip(SubSeq(s, 1, Len(s) - 1)) ELSE s

strip(s) == rstrip(lstrip(s))

\* Python truthiness of a str: `not s` is true exactly for the empty string.
not_str(s) == Len(s) = 0

\* ------------------------------------------------------------- rationals

Abs(n) == IF n < 0 THEN -n ELSE n

RECURSIVE GCD(_, _)
GCD(a, b) == IF b = 0 THEN a ELSE GCD(b, a % b)

\* The rational n/d (d # 0) in lowest terms with a positive denominator.
Rat(n, d) == LET g == GCD(Abs(n), Abs(d))
                 s == IF d < 0 THEN -1 ELSE 1
             IN  <<(s * n) \div g, (s * d) \div g>>

Zero == <<0, 1>>

RatAdd(a, b) == Rat(a[1] * b[2] + b[1] * a[2], a[2] * b[2])

\* Python's a / b on numbers, b # 0.
RatDiv(a, b) == Rat(a[1] * b[2], a[2] * b[1])

RatMul(a, b) == Rat(a[1] * b[1], a[2] * b[2])

\* a <= 0
RatLeqZero(a) == a[1] <= 0

\* ----------------------------------------------------------------- dates

DigitChars == <<"0", "1", "2", "3", "4", "5", "6", "7", "8", "9">>

\* The decimal digits of n, zero-padded to `width` characters.
RECURSIVE Digits(_, _)
Digits(n, width) == IF width = 0 THEN <<>>
                    ELSE Append(Digits(n \div 10, width - 1), DigitChars[(n % 10) + 1])

\* fecha.strftime('%Y-%m-%d')
strftime(fecha) ==
    Digits(fecha.y, 4) \o <<"-">> \o Digits(fecha.m, 2) \o <<"-">> \o Digits(fecha.d, 2)

\* Code point of a character of a fecha string ("-" sorts before the digits).
Ord(c) == IF c = "-" THEN 45
          ELSE 47 + (CHOOSE i \in 1..10 : DigitChars[i] = c)

\* SQLite's BINARY collation on TEXT: a < b, character by character, a
\* proper prefix being smaller.
RECURSIVE TextLess(_, _)
TextLess(a, b) == IF b = <<>> THEN FALSE
                  ELSE IF a = <<>> THEN TRUE
                  ELSE IF Head(a) # Head(b) THEN Ord(Head(a)) < Ord(Head(b))
                  ELSE TextLess(Tail(a), Tail(b))

\* The number a run of digit characters denotes.
RECURSIVE ParseInt(_)
ParseInt(s) == IF s = <<>> THEN 0
               ELSE 10 * ParseInt(SubSeq(s, 1, Len(s) - 1)) + (Ord(s[Len(s)]) - 48)

\* Positions of the "-" separators of a fecha string.
Dashes(s) == {i \in 1..Len(s) : s[i] = "-"}

\* pd.to_datetime on a 'Y-M-D' string: the calendar date it denotes.
to_datetime(s) ==
    LET d1 == CHOOSE i \in Dashes(s) : \A j \in Dashes(s) : i <= j
        d2 == CHOOSE i \in Dashes(s) : \A j \in Dashes(s) : j <= i
    IN  [y |-> ParseInt(SubSeq(s, 1, d1 - 1)),
         m |-> ParseInt(SubSeq(s, d1 + 1, d2 - 1)),
         d |-> ParseInt(SubSeq(s, d2 + 1, Len(s)))]

IsLeap(y) == (y % 4 = 0 /\ y % 100 # 0) \/ y % 400 = 0

DaysInMonth(y, m) == IF m = 2 THEN (IF IsLeap(y) THEN 29 ELSE 28)
                     ELSE IF m \in {4, 6, 9, 11} THEN 30 ELSE 31

\* The calendar day after `f` (one step of the 'D' frequency).
NextDay(f) == IF f.d < DaysInMonth(f.y, f.m) THEN [f EXCEPT !.d = f.d + 1]
              ELSE IF f.m < 12 THEN [y |-> f.y, m |-> f.m + 1, d |-> 1]
              ELSE [y |-> f.y + 1, m |-> 1, d |-> 1]

\* Chronological order of Timestamps.
DateLess(a, b) == \/ a.y < b.y
                  \/ a.y = b.y /\ a.m < b.m
                  \/ a.y = b.y /\ a.m = b.m /\ a.d < b.d

\* ---------------------------------------------------------------- inputs

\* Values the modelled user types into a text_input.
TextInputs == {<<>>, <<" ">>, <<"x">>}

\* Values typed as a new category name (form) or as the new name (sidebar).
NombreInputs == TextInputs \cup {<<" ", "x", " ">>, <<"Otros">>}

\* st.number_input("Monto", min_value=0.01): the widget minimum, 0.01.
MontoInputs == {<<1, 100>>}

\* st.number_input("Tasa de Cambio", min_value=0.01): a rate of 50.
TasaInputs == {<<50, 1>>}

\* st.selectbox("Moneda", ...)
Monedas == {"USD $", "Bolivares Bs."}

\* Forms of the conversion check: amounts and rates the two number_input
\* widgets can deliver (both have min_value=0.01).
MontoDominio == {<<1, 100>>, <<1, 1>>, <<997, 100>>, <<1000, 1>>}

TasaDominio == {<<1, 100>>, <<3, 1>>, <<365, 10>>, <<50, 1>>}

\* st.date_input: two dates that share a month boundary and a free day.
FechaInputs == {[y |-> 2024, m |-> 9, d |-> 30], [y |-> 2024, m |-> 10, d |-> 2]}

\* st.number_input("ID del gasto a eliminar", min_value=1, step=1)
IdInputs == 1..(MaxId + 1)

\* Outcomes of a sqlite3 call the environment can force: none, connect()
\* raising, a statement or commit raising sqlite3.Error.
Fallas == {"none", "connect", "exec"}

\* For init_db: connect() raising, CREATE TABLE raising sqlite3.Error, the
\* ALTER statements raising sqlite3.OperationalError.
InitFallas == {"none", "connect", "create", "alter"}

\* ---------------------------------------------------------------- schema

ColumnasActuales == {"id", "categoria", "concepto", "banco", "monto_usd", "fecha"}

\* Tables of earlier versions: the amount column named monto, no categoria.
Esquemas == {{}, ColumnasActuales,
             ColumnasActuales \ {"categoria"},
             (ColumnasActuales \ {"monto_usd"}) \cup {"monto"},
             (ColumnasActuales \ {"monto_usd", "categoria"}) \cup {"monto"}}

\* init_db(): the columns afterwards, the st.error it shows, and whether the
\* finally block raised (conn unbound after a failed connect): {} is no table.
init_db(cols, falla) ==
    IF falla = "connect" THEN [columnas |-> cols, res |-> "error", crash |-> TRUE]
    ELSE IF falla = "create" THEN [columnas |-> cols, res |-> "error", crash |-> FALSE]
    ELSE LET c1 == IF cols = {} THEN ColumnasActuales ELSE cols
             c2 == IF falla # "alter" /\ "monto" \in c1 /\ "monto_usd" \notin c1
                   THEN (c1 \ {"monto"}) \cup {"monto_usd"} ELSE c1
             c3 == IF falla # "alter" THEN c2 \cup {"categoria"} ELSE c2
         IN  [columnas |-> c3, res |-> "ok", crash |-> FALSE]

\* ----------------------------------------------------------------- store

Max(a, b) == IF a >= b THEN a ELSE b

Ids(rows) == {r.id : r \in rows}

MaxRowid(rows) == IF rows = {} THEN 0 ELSE CHOOSE i \in Ids(rows) : \A j \in Ids(rows) : j <= i

NuevoIdSinAutoincrement(rows, seq) == MaxRowid(rows) + 1

\* INTEGER PRIMARY KEY AUTOINCREMENT: one more than the largest rowid the
\* table ever held (sqlite_sequence).
NuevoId(rows, seq) == Max(seq, MaxRowid(rows)) + 1

\* guardar_gasto(categoria, concepto, banco, monto_usd, fecha)
guardar_gasto(cols, rows, seq, categoria, concepto, banco, monto_usd, fecha, falla) ==
    IF falla = "connect"
    THEN [gastos |-> rows, sqlite_sequence |-> seq, res |-> "error", crash |-> TRUE]
    ELSE IF falla = "exec" \/ ~({"categoria", "concepto", "banco", "monto_usd", "fecha"} \subseteq cols)
    THEN [gastos |-> rows, sqlite_sequence |-> seq, res |-> "error", crash |-> FALSE]
    ELSE LET k == NuevoId(rows, seq)
             fecha_str == strftime(fecha)
         IN  [gastos |-> rows \cup {[id |-> k, categoria |-> categoria, concepto |-> concepto,
                                     banco |-> banco, monto_usd |-> monto_usd, fecha |-> fecha_str]},
              sqlite_sequence |-> k, res |-> "success", crash |-> FALSE]

\* The sequences SELECT ... ORDER BY fecha DESC may return: every row once,
\* fecha never increasing; the order of rows with equal fecha is not fixed.
OrderByFechaDesc(rows) ==
    LET n == Cardinality(rows)
    IN  {s \in [1..n -> rows] :
            /\ \A i, j \in 1..n : i # j => s[i] # s[j]
            /\ \A i, j \in 1..n : i < j => ~TextLess(s[i].fecha, s[j].fecha)}

\* The body of cargar_datos(): the DataFrames it may return.
cargar_datos_body(cols, rows, falla) ==
    IF falla = "connect"
    THEN {[df |-> <<>>, res |-> "error", crash |-> TRUE]}
    ELSE IF falla = "exec" \/ ~(ColumnasActuales \subseteq cols)
    THEN {[df |-> <<>>, res |-> "error", crash |-> FALSE]}
    ELSE {[df |-> [i \in 1..Len(s) |-> [s[i] EXCEPT !.fecha = to_datetime(s[i].fecha)]],
           res |-> "ok", crash |-> FALSE] : s \in OrderByFechaDesc(rows)}

\* @st.cache_data(ttl=60) cargar_datos(): the cached frame while the cache
\* holds one, else the body's result, which is then cached.
cargar_datos(cols, rows, cch, fallas) ==
    IF cch # <<>> THEN {[df |-> cch[1], res |-> "cached", crash |-> FALSE]}
    ELSE UNION {cargar_datos_body(cols, rows, falla) : falla \in fallas}

\* An UPDATE without its WHERE clause.
actualizar_nombre_categoria_sin_where(cols, rows, old_name, new_name, falla) ==
    IF not_str(strip(new_name))
    THEN [gastos |-> rows, res |-> "error", crash |-> FALSE, rerun |-> FALSE]
    ELSE [gastos |-> {[r EXCEPT !.categoria = strip(new_name)] : r \in rows},
          res |-> "success", crash |-> FALSE, rerun |-> TRUE]

\* actualizar_nombre_categoria(old_name, new_name); rerun says whether the
\* call reached st.cache_data.clear() and st.rerun().
actualizar_nombre_categoria(cols, rows, old_name, new_name, falla) ==
    IF not_str(strip(new_name))
    THEN [gastos |-> rows, res |-> "error", crash |-> FALSE, rerun |-> FALSE]
    ELSE IF falla = "connect"
    THEN [gastos |-> rows, res |-> "error", crash |-> TRUE, rerun |-> FALSE]
    ELSE IF falla = "exec" \/ "categoria" \notin cols
    THEN [gastos |-> rows, res |-> "error", crash |-> FALSE, rerun |-> TRUE]
    ELSE [gastos |-> {IF r.categoria = old_name THEN [r EXCEPT !.categoria = strip(new_name)] ELSE r
                      : r \in rows},
          res |-> "success", crash |-> FALSE, rerun |-> TRUE]

\* eliminar_gasto without the look at conn.total_changes.
eliminar_gasto_sin_verificar(cols, rows, gasto_id, falla) ==
    [gastos |-> {r \in rows : r.id # gasto_id}, res |-> "success", crash |-> FALSE]

\* eliminar_gasto(gasto_id)
eliminar_gasto(cols, rows, gasto_id, falla) ==
    IF falla = "connect"
    THEN [gastos |-> rows, res |-> "error", crash |-> TRUE]
    ELSE IF falla = "exec" \/ "id" \notin cols
    THEN [gastos |-> rows, res |-> "error", crash |-> FALSE]
    ELSE LET borradas == {r \in rows : r.id = gasto_id}
             total_changes == Cardinality(borradas)
         IN  [gastos |-> rows \ borradas,
              res |-> IF total_changes = 0 THEN "warning" ELSE "success",
              crash |-> FALSE]

\* ------------------------------------------------------------ aggregates

\* The days from lo to hi inclusive, as resample('D') lays out its bins.
RECURSIVE DateRange(_, _)
DateRange(lo, hi) == IF ~DateLess(lo, hi) THEN <<lo>>
                     ELSE <<lo>> \o DateRange(NextDay(lo), hi)

\* Sum of monto_usd over the rows of df dated `dia`, rows 1..n.
RECURSIVE SumaDia(_, _, _)
SumaDia(df, dia, n) ==
    IF n = 0 THEN Zero
    ELSE IF df[n].fecha = dia THEN RatAdd(SumaDia(df, dia, n - 1), df[n].monto_usd)
    ELSE SumaDia(df, dia, n - 1)

FechaMin(df) == CHOOSE f \in {df[i].fecha : i \in 1..Len(df)} :
                    \A i \in 1..Len(df) : ~DateLess(df[i].fecha, f)

FechaMax(df) == CHOOSE f \in {df[i].fecha : i \in 1..Len(df)} :
                    \A i \in 1..Len(df) : ~DateLess(f, df[i].fecha)

\* A groupby('fecha') in place of the resample: only the days that have rows.
gastos_tiempo_sin_relleno(df) ==
    LET dias == DateRange(FechaMin(df), FechaMax(df))
        con  == SelectSeq(dias, LAMBDA f : \E i \in 1..Len(df) : df[i].fecha = f)
    IN  [i \in 1..Len(con) |-> [fecha |-> con[i], monto_usd |-> SumaDia(df, con[i], Len(df))]]

\* df_gastos.set_index('fecha').resample('D')['monto_usd'].sum().reset_index()
\* (the script evaluates it only for a non-empty df_gastos).
gastos_tiempo(df) ==
    LET dias == DateRange(FechaMin(df), FechaMax(df))
    IN  [i \in 1..Len(dias) |-> [fecha |-> dias[i], monto_usd |-> SumaDia(df, dias[i], Len(df))]]

\* ------------------------------------------------------------- the form

\* default_categorias (accents dropped)
default_categorias == {<<"Alimentacion">>, <<"Hogar">>, <<"Transporte">>, <<"Entretenimiento">>,
                       <<"Salud">>, <<"Educacion">>, <<"Otros">>}

OTRA == <<"Otra (Crear Nueva)">>

\* df_gastos['categoria'].unique()
categorias_unicas(df) == {df[i].categoria : i \in 1..Len(df)}

opciones_finales(df) == default_categorias \cup categorias_unicas(df) \cup {OTRA}

\* The options the modelled user picks: Otros among the seven defaults, any
\* category of the data, and the "create new" entry.
Seleccionables(df) == {c \in opciones_finales(df) : c \notin default_categorias \ {<<"Otros">>}}

monto_final_usd_sin_rama(monto_ingresado, moneda, tasa_cambio) ==
    IF moneda = "USD $" THEN monto_ingresado ELSE Zero

monto_final_usd_por_tasa(monto_ingresado, moneda, tasa_cambio) ==
    IF moneda = "Bolivares Bs." THEN RatMul(monto_ingresado, tasa_cambio)
    ELSE IF moneda = "USD $" THEN monto_ingresado ELSE Zero

\* valid_input after the checks of the "Guardar Gasto" handler.
valid_input(categoria_final, concepto, banco, monto_ingresado, moneda, tasa_cambio) ==
    IF not_str(categoria_final) \/ not_str(concepto) \/ not_str(banco) \/ RatLeqZero(monto_ingresado)
    THEN FALSE
    ELSE IF moneda = "Bolivares Bs." THEN ~RatLeqZero(tasa_cambio)
    ELSE TRUE

\* monto_final_usd of a submission that passed the checks.
monto_final_usd(monto_ingresado, moneda, tasa_cambio) ==
    IF moneda = "Bolivares Bs." THEN RatDiv(monto_ingresado, tasa_cambio)
    ELSE IF moneda = "USD $" THEN monto_ingresado ELSE Zero

\* ------------------------------------------------------------ script runs

\* A call of the run and what it reported (the st.success / st.warning /
\* st.error it showed, "ok" for none).  A call that succeeded is recorded
\* with its arguments.
Entrada(fn, args, res) == [fn |-> fn, args |-> args, res |-> res]

\* Lines 121-124 of a run: init_db(), then df_gastos = cargar_datos().  A
\* cache hit runs no body and is no call.
Arranque(amb) ==
    UNION {LET r1 == init_db(columnas, fi)
               e1 == Entrada("init_db", <<>>, r1.res)
           IN  IF r1.crash
               THEN {[crash |-> TRUE, columnas |-> r1.columnas, df |-> <<>>,
                      cache |-> cache, log |-> <<e1>>]}
               ELSE {[crash |-> r2.crash, columnas |-> r1.columnas, df |-> r2.df,
                      cache |-> IF r2.crash THEN cache ELSE <<r2.df>>,
                      log |-> IF r2.res = "cached" THEN <<e1>>
                              ELSE <<e1, Entrada("cargar_datos", <<>>, r2.res)>>]
                     : r2 \in cargar_datos(r1.columnas, gastos, cache, amb.fallas)}
           : fi \in amb.init_fallas}

Termina(cols, rows, seq, cch, log, est) ==
    /\ columnas' = cols
    /\ gastos' = rows
    /\ sqlite_sequence' = seq
    /\ cache' = cch
    /\ llamadas' = log
    /\ estado' = est
    /\ UNCHANGED <<form, conv>>

\* A run no button triggered: the first load, a reload, the run st.rerun()
\* starts.
RunPlain(amb) ==
    \E a \in Arranque(amb) :
        Termina(a.columnas, gastos, sqlite_sequence, a.cache, a.log,
                IF a.crash THEN "crashed" ELSE "idle")

\* categoria_final: the selected option, or the text typed for a new one.
CategoriasFinales(df) == (Seleccionables(df) \ {OTRA}) \cup NombreInputs

\* The widget values a click on "Guardar Gasto" can carry; tasa_cambio is 0
\* unless the currency selected is Bolivares.
Envios(df, amb) ==
    {[categoria_final |-> c, concepto |-> k, banco |-> b, monto_ingresado |-> m,
      moneda |-> mon, tasa_cambio |-> IF mon = "Bolivares Bs." THEN t ELSE Zero, fecha |-> f] :
        c \in CategoriasFinales(df), k \in amb.conceptos, b \in amb.bancos, m \in MontoInputs,
        mon \in amb.monedas, t \in TasaInputs, f \in amb.fechas}

Valido(e) == valid_input(e.categoria_final, e.concepto, e.banco, e.monto_ingresado,
                         e.moneda, e.tasa_cambio)

cache_data_clear_omitido(cch) == cch

\* st.cache_data.clear()
cache_data_clear(cch) == <<>>

\* A run triggered by "Guardar Gasto" (a run stopped before the handler is
\* RunPlain's).  Every rejected submission ends the run the same way.
RunGuardar(amb) ==
    /\ estado = "idle"
    /\ \E a \in Arranque(amb) :
        /\ ~a.crash
        /\ LET envios == Envios(a.df, amb)
               validos == {e \in envios : Valido(e)}
           IN  \/ /\ envios # validos
                  /\ Termina(a.columnas, gastos, sqlite_sequence, a.cache,
                             Append(a.log, Entrada("Guardar Gasto", <<>>, "warning")), "idle")
               \/ /\ NuevoId(gastos, sqlite_sequence) <= MaxId
                  /\ \E e \in validos, falla \in amb.fallas :
                        LET usd == monto_final_usd(e.monto_ingresado, e.moneda, e.tasa_cambio)
                            args == <<strip(e.categoria_final), e.concepto, e.banco, usd, e.fecha>>
                            r == guardar_gasto(a.columnas, gastos, sqlite_sequence, args[1], args[2],
                                               args[3], args[4], args[5], falla)
                            en == Entrada("guardar_gasto", IF r.res = "success" THEN args ELSE <<>>,
                                          r.res)
                        IN  Termina(a.columnas, r.gastos, r.sqlite_sequence,
                                    IF r.crash THEN a.cache ELSE cache_data_clear(a.cache),
                                    Append(a.log, en), IF r.crash THEN "crashed" ELSE "rerun")

\* A run triggered by "Actualizar Categoria"; the expander shows the button
\* only for a non-empty df_gastos.
RunRenombrar(amb) ==
    /\ estado = "idle"
    /\ \E a \in Arranque(amb) :
        /\ ~a.crash
        /\ a.df # <<>>
        /\ LET pares == categorias_unicas(a.df) \X NombreInputs
           IN  \/ /\ {par \in pares : par[1] = par[2]} # {}
                  /\ Termina(a.columnas, gastos, sqlite_sequence, a.cache,
                             Append(a.log, Entrada("Actualizar Categoria", <<>>, "warning")), "idle")
               \/ \E par \in {p \in pares : p[1] # p[2]}, falla \in amb.fallas :
                     LET r == actualizar_nombre_categoria(a.columnas, gastos, par[1], par[2], falla)
                         e == Entrada("actualizar_nombre_categoria",
                                      IF r.res = "success" THEN par ELSE <<>>, r.res)
                     IN  Termina(a.columnas, r.gastos, sqlite_sequence,
                                 IF r.rerun THEN cache_data_clear(a.cache) ELSE a.cache,
                                 Append(a.log, e),
                                 IF r.crash THEN "crashed" ELSE IF r.rerun THEN "rerun" ELSE "idle")

\* A run triggered by "Eliminar Gasto".
RunEliminar(amb) ==
    /\ estado = "idle"
    /\ \E a \in Arranque(amb) :
        /\ ~a.crash
        /\ \E id_a_eliminar \in IdInputs, falla \in amb.fallas :
            LET r == eliminar_gasto(a.columnas, gastos, id_a_eliminar, falla)
                e == Entrada("eliminar_gasto",
                             IF r.res = "error" THEN <<>> ELSE <<id_a_eliminar>>, r.res)
            IN  Termina(a.columnas, r.gastos, sqlite_sequence,
                        IF r.crash THEN a.cache ELSE cache_data_clear(a.cache), Append(a.log, e),
                        IF r.crash THEN "crashed" ELSE "rerun")

\* ttl=60: the cache entry of cargar_datos expires.
CacheExpire ==
    /\ estado = "idle"
    /\ cache # <<>>
    /\ cache' = <<>>
    /\ UNCHANGED <<columnas, gastos, sqlite_sequence, llamadas, estado, form, conv>>

\* The database file before the first run: absent, or a table of an earlier
\* version, with no rows; nothing cached, nothing run.
Init ==
    /\ columnas \in Esquemas
    /\ gastos = {}
    /\ sqlite_sequence = 0
    /\ cache = <<>>
    /\ llamadas = <<>>
    /\ estado = "rerun"
    /\ form = <<>>
    /\ conv = <<>>

\* After st.rerun() or an uncaught exception the next run is a plain one.
\* The store answers every call: no sqlite3 call raises unless the table or
\* a column it names is missing.
Sano == [init_fallas |-> {"none"}, fallas |-> {"none"},
         conceptos |-> {<<>>, <<"x">>}, bancos |-> {<<>>, <<"x">>},
         monedas |-> Monedas, fechas |-> FechaInputs]

Next ==
    \/ RunPlain(Sano)
    \/ RunGuardar(Sano)
    \/ RunRenombrar(Sano)
    \/ RunEliminar(Sano)
    \/ CacheExpire

Spec == Init /\ [][Next]_vars

\* Any sqlite3 call may raise.
Adverso == [Sano EXCEPT !.init_fallas = InitFallas, !.fallas = Fallas]

NextAdverso ==
    \/ RunPlain(Adverso)
    \/ RunGuardar(Adverso)
    \/ RunRenombrar(Adverso)
    \/ RunEliminar(Adverso)
    \/ CacheExpire

SpecAdverso == Init /\ [][NextAdverso]_vars

\* Concepto and banco typed with whitespace; one currency, one date.
Textos == [Sano EXCEPT !.conceptos = TextInputs, !.bancos = TextInputs,
                       !.monedas = {"USD $"}, !.fechas = {[y |-> 2024, m |-> 9, d |-> 30]}]

NextTextos ==
    \/ RunPlain(Textos)
    \/ RunGuardar(Textos)
    \/ RunRenombrar(Textos)
    \/ RunEliminar(Textos)
    \/ CacheExpire

SpecTextos == Init /\ [][NextTextos]_vars

\* ----------------------------------------- the conversion, form by form

Formularios ==
    {[categoria_final |-> c, concepto |-> k, banco |-> b, monto_ingresado |-> m,
      moneda |-> mon, tasa_cambio |-> t] :
        c \in TextInputs, k \in TextInputs, b \in TextInputs, m \in MontoDominio,
        mon \in Monedas, t \in TasaDominio \cup {Zero}}

InitConv ==
    /\ columnas = ColumnasActuales
    /\ gastos = {}
    /\ sqlite_sequence = 0
    /\ cache = <<>>
    /\ llamadas = <<>>
    /\ estado = "idle"
    /\ form \in {f \in Formularios : f.tasa_cambio = Zero <=> f.moneda = "USD $"}
    /\ conv = <<>>

\* The conversion logic of the handler applied to the form.
Convertir ==
    /\ conv = <<>>
    /\ conv' = LET v == valid_input(form.categoria_final, form.concepto, form.banco,
                                    form.monto_ingresado, form.moneda, form.tasa_cambio)
               IN  [valid_input |-> v,
                    monto_final_usd |-> IF v THEN monto_final_usd(form.monto_ingresado, form.moneda,
                                                                  form.tasa_cambio)
                                        ELSE Zero]
    /\ UNCHANGED <<columnas, gastos, sqlite_sequence, cache, llamadas, estado, form>>

NextConv == Convertir

SpecConv == InitConv /\ [][NextConv]_vars

\* ============================================================== claims

\* The call the step just made last, when the step is a handler run that
\* ended in st.rerun().
Hizo(fn, res) ==
    /\ estado = "idle"
    /\ estado' = "rerun"
    /\ llamadas'[Len(llamadas')].fn = fn
    /\ llamadas'[Len(llamadas')].res = res

ArgsHechos == llamadas'[Len(llamadas')].args

MismosDatos(r, q) ==
    /\ q.id = r.id
    /\ q.concepto = r.concepto
    /\ q.banco = r.banco
    /\ q.monto_usd = r.monto_usd
    /\ q.fecha = r.fecha

\* The cached frame lists every row of the table exactly once, with the
\* row's fields and the date its fecha text denotes.
ListaFiel(rows, cch) ==
    cch # <<>> =>
        LET df == cch[1]
        IN  /\ Len(df) = Cardinality(rows)
            /\ \A r \in rows :
                /\ Cardinality({i \in 1..Len(df) : df[i].id = r.id}) = 1
                /\ \A i \in 1..Len(df) :
                      df[i].id = r.id =>
                        /\ df[i].categoria = r.categoria
                        /\ df[i].concepto = r.concepto
                        /\ df[i].banco = r.banco
                        /\ df[i].monto_usd = r.monto_usd
                        /\ strftime(df[i].fecha) = r.fecha

\* C1 as stated: a record keeps the fields it was created with, in every
\* later state, until eliminar_gasto is called with its id.
C1_Original ==
    [][\A r \in gastos :
          \/ r \in gastos'
          \/ Hizo("eliminar_gasto", "success") /\ ArgsHechos = <<r.id>>]_vars

\* C1 (amended): a successful guardar_gasto adds one row, with a fresh id and
\* the fields passed; every row then stays, with the same id, concepto, banco,
\* monto_usd and fecha, its categoria changing only by a rename of exactly that
\* categoria, until eliminar_gasto is called with its id; and every frame
\* cargar_datos hands out lists each row of the table exactly once with
\* those fields.
C1_Creado ==
    [][/\ Hizo("guardar_gasto", "success") =>
            LET a == ArgsHechos
                k == sqlite_sequence'
            IN  /\ k \notin Ids(gastos)
                /\ gastos' = gastos \cup {[id |-> k, categoria |-> a[1], concepto |-> a[2],
                                           banco |-> a[3], monto_usd |-> a[4],
                                           fecha |-> strftime(a[5])]}
       /\ \A r \in gastos :
            \/ r \in gastos'
            \/ Hizo("eliminar_gasto", "success") /\ ArgsHechos = <<r.id>>
            \/ /\ Hizo("actualizar_nombre_categoria", "success")
               /\ ArgsHechos[1] = r.categoria
               /\ [r EXCEPT !.categoria = strip(ArgsHechos[2])] \in gastos'
       /\ ListaFiel(gastos', cache')]_vars

\* C1 witness: record 2 is listed, once, after record 1 was deleted.
C1_Witness ==
    /\ cache # <<>>
    /\ Ids(gastos) = {2}
    /\ Len(cache[1]) = 1
    /\ cache[1][1].id = 2

\* C2: ids are pairwise distinct, and an id given to a new record is larger
\* than every id assigned before: sqlite_sequence never decreases, bounds
\* every id in the table, and is below every new id.
C2_IdsNuncaReusados ==
    [][/\ \A r, q \in gastos' : r.id = q.id => r = q
       /\ sqlite_sequence' >= sqlite_sequence
       /\ \A r \in gastos' : r.id <= sqlite_sequence'
       /\ \A r \in gastos' : r.id \notin Ids(gastos) => r.id > sqlite_sequence]_vars

\* C2 witness: record 1 was deleted and the next record got id 2.
C2_Witness == Ids(gastos) = {2} /\ sqlite_sequence = 2

\* C3 as stated: categoria, concepto and banco of every record are non-empty
\* after trimming.
C3_Original ==
    \A r \in gastos :
        /\ strip(r.categoria) # <<>>
        /\ strip(r.concepto) # <<>>
        /\ strip(r.banco) # <<>>

\* C4: every record has monto_usd > 0, and a rejected submission leaves the
\* table and the id counter as they were. The number_input widgets deliver
\* amounts and rates of at least 0.01, so the submissions rejected in a run
\* are those with an empty field; the handler's own test still refuses an
\* amount <= 0 and, for Bolivares, a rate <= 0.
C4_MontoPositivo ==
    [][/\ \A r \in gastos' : r.monto_usd[1] > 0 /\ r.monto_usd[2] > 0
       /\ (/\ estado = "idle"
           /\ llamadas'[Len(llamadas')] = Entrada("Guardar Gasto", <<>>, "warning"))
          => gastos' = gastos /\ sqlite_sequence' = sqlite_sequence
       /\ \A m \in {<<0, 1>>, <<-1, 100>>} :
            /\ ~valid_input(<<"x">>, <<"x">>, <<"x">>, m, "USD $", Zero)
            /\ ~valid_input(<<"x">>, <<"x">>, <<"x">>, <<1, 1>>, "Bolivares Bs.", m)]_vars

\* C4 witness: a record of 0.01 Bs. at a rate of 50, 0.0002 USD.
C4_Witness == \E r \in gastos : r.monto_usd = <<1, 5000>>

\* C5: the amount of an accepted submission is the amount entered for USD,
\* and for Bolivares the amount which, times the rate, is the amount entered.
C5_Conversion ==
    (conv # <<>> /\ conv.valid_input) =>
        /\ form.moneda = "USD $" => conv.monto_final_usd = form.monto_ingresado
        /\ form.moneda = "Bolivares Bs." =>
              /\ form.tasa_cambio[1] > 0
              /\ RatMul(conv.monto_final_usd, form.tasa_cambio) = form.monto_ingresado

\* C5 witness: 1000 Bs. at a rate of 50 is accepted as 20 USD.
C5_Witness ==
    /\ conv # <<>>
    /\ conv.valid_input
    /\ form.moneda = "Bolivares Bs."
    /\ form.monto_ingresado = <<1000, 1>>
    /\ form.tasa_cambio = <<50, 1>>
    /\ conv.monto_final_usd = <<20, 1>>

\* C6 as stated: the records whose categoria is old_name get new_name as
\* their categoria.
C6_Original ==
    [][Hizo("actualizar_nombre_categoria", "success") =>
          \A r \in gastos :
              r.categoria = ArgsHechos[1] =>
                  \E q \in gastos' : q.id = r.id /\ q.categoria = ArgsHechos[2]]_vars

\* C6 (amended): a rename whose new name is non-empty after trimming gives
\* the records whose categoria is old_name the trimmed new name, leaves the
\* categoria of the others, changes no other field, adds and removes nothing.
C6_Renombrado ==
    [][Hizo("actualizar_nombre_categoria", "success") =>
          /\ strip(ArgsHechos[2]) # <<>>
          /\ Cardinality(gastos') = Cardinality(gastos)
          /\ sqlite_sequence' = sqlite_sequence
          /\ \A r \in gastos :
                \E q \in gastos' :
                    /\ MismosDatos(r, q)
                    /\ q.categoria = IF r.categoria = ArgsHechos[1] THEN strip(ArgsHechos[2])
                                     ELSE r.categoria]_vars

\* C6 witness: after renaming x to " x ", the record of x is in "x", the
\* trimmed name, and another is still in Otros.
C6_Witness ==
    /\ estado = "rerun"
    /\ llamadas # <<>>
    /\ llamadas[Len(llamadas)] =
          Entrada("actualizar_nombre_categoria", <<<<"x">>, <<" ", "x", " ">>>>, "success")
    /\ \E r, q \in gastos : r.categoria = <<"x">> /\ q.categoria = <<"Otros">>

\* C7: eliminar_gasto with an id no record has warns and changes nothing;
\* with the id of a record it reports the deletion and removes that record
\* and no other.
C7_Eliminado ==
    [][\A res \in {"success", "warning"} :
          Hizo("eliminar_gasto", res) =>
              LET k == ArgsHechos[1]
              IN  /\ k \notin Ids(gastos) => res = "warning" /\ gastos' = gastos
                  /\ k \in Ids(gastos) =>
                        /\ res = "success"
                        /\ gastos' = {r \in gastos : r.id # k}
                        /\ Cardinality(gastos') = Cardinality(gastos) - 1]_vars

\* C7 witness: id 1 was asked for while the table held only record 2.
C7_Witness ==
    /\ estado = "rerun"
    /\ llamadas # <<>>
    /\ llamadas[Len(llamadas)] = Entrada("eliminar_gasto", <<1>>, "warning")
    /\ Ids(gastos) = {2}

\* C8 as stated: once init_db has reported an error, the run makes no
\* further call.
C8_Original ==
    \A i \in 1..Len(llamadas) :
        (llamadas[i].fn = "init_db" /\ llamadas[i].res = "error") => Len(llamadas) = i

\* C9 as stated: the frame holds every record, fecha descending, and of two
\* records of one date the one inserted later comes first.
C9_Original ==
    cache # <<>> =>
        LET df == cache[1]
        IN  /\ ListaFiel(gastos, cache)
            /\ \A i, j \in 1..Len(df) :
                  i < j => \/ DateLess(df[j].fecha, df[i].fecha)
                           \/ df[i].fecha = df[j].fecha /\ df[i].id > df[j].id

\* Days before month m in a common year.
DiasAntesDelMes == <<0, 31, 59, 90, 120, 151, 181, 212, 243, 273, 304, 334>>

\* The day's number in the proleptic Gregorian calendar (date.toordinal()).
Ordinal(f) ==
    LET y == f.y - 1
    IN  365 * y + (y \div 4) - (y \div 100) + (y \div 400)
        + DiasAntesDelMes[f.m] + (IF f.m > 2 /\ IsLeap(f.y) THEN 1 ELSE 0) + f.d

\* Sum of monto_usd over the rows of df whose index is in idx.
RECURSIVE SumaDe(_, _)
SumaDe(df, idx) ==
    IF idx = {} THEN Zero
    ELSE LET i == CHOOSE x \in idx : TRUE
         IN  RatAdd(df[i].monto_usd, SumaDe(df, idx \ {i}))

\* C10: for a non-empty frame the daily series starts at the earliest date,
\* ends at the latest, advances one calendar day per entry, and each entry is
\* the sum of the records of that day, 0 when there are none.
C10_SerieDiaria ==
    (cache # <<>> /\ cache[1] # <<>>) =>
        LET df == cache[1]
            serie == gastos_tiempo(df)
            n == Len(serie)
        IN  /\ n >= 1
            /\ \A i \in 1..Len(df) :
                  /\ Ordinal(serie[1].fecha) <= Ordinal(df[i].fecha)
                  /\ Ordinal(df[i].fecha) <= Ordinal(serie[n].fecha)
            /\ \E i \in 1..Len(df) : df[i].fecha = serie[1].fecha
            /\ \E i \in 1..Len(df) : df[i].fecha = serie[n].fecha
            /\ \A k \in 1..(n - 1) : Ordinal(serie[k + 1].fecha) = Ordinal(serie[k].fecha) + 1
            /\ \A k \in 1..n :
                  serie[k].monto_usd = SumaDe(df, {i \in 1..Len(df) : df[i].fecha = serie[k].fecha})

\* C10 witness: records on 2024-09-30 and 2024-10-02 give three entries, the
\* one for 2024-10-01 being 0.
C10_Witness ==
    /\ cache # <<>>
    /\ Len(cache[1]) = 2
    /\ LET serie == gastos_tiempo(cache[1])
       IN  /\ Len(serie) = 3
           /\ serie[2] = [fecha |-> [y |-> 2024, m |-> 10, d |-> 1], monto_usd |-> Zero]

====
